---- MODULE Spec2Model ----
(***************************************************************************)
(* A model of app.py, the body-part aware jewellery colour analyzer.       *)
(*                                                                         *)
(* The pure functions (color_to_metal, recommend_unique_metals,            *)
(* get_recommendations_for_parts) are operators computed the way the       *)
(* Python code computes them, loop by loop.  The Streamlit script (lines   *)
(* 138-201) is a state machine over pc.  Four specifications:              *)
(*   Spec            one run of the script, from upload to the last write  *)
(*   SpecClassifier  color_to_metal applied to an RGB triple               *)
(*   SpecRanker      recommend_unique_metals applied to clusters           *)
(*   SpecSelector    get_recommendations_for_parts applied to its inputs   *)
(*                                                                         *)
(* Abstractions.  Sequences are 1-based, so cluster index k of the model   *)
(* is index k-1 of the code.  The decoded images and KMeans are external:  *)
(* the model keeps the number of decoded images, and the cluster colours   *)
(* and occupancies are inputs.  percentages holds integers: the code only  *)
(* orders them (np.argsort), so any order-preserving scale is equivalent.  *)
(* color_to_metal only compares channels, so the channel range 0..MaxChan  *)
(* realises every order pattern of 0..255 once MaxChan >= 2.               *)
(***************************************************************************)
EXTENDS Integers, Sequences, FiniteSets

VARIABLES
    pc,             \* position in the script / in the call
    nfiles,         \* len(files), files = uploaded_files[:3]
    i,              \* number of files the upload loop has handled
    images,         \* len(images): files decoded so far
    selected_parts, \* the part chosen for each decoded image
    parts_set,      \* the set of parts handed to the selector
    colors,         \* cluster colours (sequence of RGB triples)
    percentages,    \* cluster occupancies, parallel to colors
    idx_sorted,     \* np.argsort(percentages)[::-1]
    top_k,          \* argument of recommend_unique_metals
    top_metals,     \* ranked metals
    parts,          \* the order in which the selector iterated its parts
    top_n,          \* argument of get_recommendations_for_parts
    final_recs,     \* result of the (first) selector call
    fallback,       \* result of the caller's second selector call
    out,            \* what the script has written to the page, in order
    rgb,            \* argument of color_to_metal
    metal           \* result of color_to_metal

vars == <<pc, nfiles, i, images, selected_parts, parts_set, colors, percentages,
          idx_sorted, top_k, top_metals, parts, top_n, final_recs, fallback,
          out, rgb, metal>>

-----------------------------------------------------------------------------
(* Bounds of the model *)

MaxChan == 4
MaxClusters == 3
MaxPct == 2
MaxTopK == 5
MaxMetals == 3
MaxTopN == 4
MaxUpload == 4

(* Program constants *)

MaxFiles == 3
Clusters == 3
AppTopK == 3
AppTopN == 3

-----------------------------------------------------------------------------
(* Sequence helpers *)

Range(s) == {s[k] : k \in 1..Len(s)}

InSeq(x, s) == \E k \in 1..Len(s) : s[k] = x

NoDup(s) == \A a, b \in 1..Len(s) : s[a] = s[b] => a = b

Min(S) == CHOOSE x \in S : \A y \in S : x <= y

\* Python's s[:n] for n >= 0
Take(s, n) == SubSeq(s, 1, IF n < Len(s) THEN n ELSE Len(s))

Injective(f) == \A a, b \in DOMAIN f : f[a] = f[b] => a = b

\* every order in which the elements of a set can be iterated
Orderings(S) == {f \in [1..Cardinality(S) -> S] : Injective(f)}

-----------------------------------------------------------------------------
(* Static data *)

LABELS_platinum_first == <<"Platinum", "Gold", "Silver", "Rose Gold", "Bronze">>

LABELS == <<"Gold", "Silver", "Rose Gold", "Platinum", "Bronze">>

PART_OPTIONS == <<"hand", "ear", "neck", "unsure">>

\* the keys of each metal's dict, in insertion (= iteration) order
DB_PARTS == <<"hand", "ear", "neck">>

RECOMMENDATION_DB ==
    [m \in {"Gold", "Silver", "Rose Gold", "Platinum", "Bronze"} |->
        CASE m = "Gold" ->
                [hand |-> <<"Gold Ring (G-Ring1)", "Gold Bracelet (G-Bracelet1)">>,
                 ear  |-> <<"Gold Hoop Earrings (G-Ear1)", "Gold Studs (G-Ear2)">>,
                 neck |-> <<"Gold Necklace (G-Neck1)">>]
          [] m = "Silver" ->
                [hand |-> <<"Silver Ring (S-Ring1)", "Silver Bracelet (S-Bracelet1)">>,
                 ear  |-> <<"Silver Drop Earrings (S-Ear1)">>,
                 neck |-> <<"Silver Pendant (S-Neck1)">>]
          [] m = "Rose Gold" ->
                [hand |-> <<"Rose Gold Ring (R-Ring1)">>,
                 ear  |-> <<"Rose Gold Hoop (R-Ear1)">>,
                 neck |-> <<"Rose Gold Pendant (R-Neck1)">>]
          [] m = "Platinum" ->
                [hand |-> <<"Platinum Band (P-Ring1)">>,
                 ear  |-> <<"Platinum Studs (P-Ear1)">>,
                 neck |-> <<"Platinum Chain (P-Neck1)">>]
          [] m = "Bronze" ->
                [hand |-> <<"Bronze Bracelet (B-Bracelet1)">>,
                 ear  |-> <<"Bronze Hoops (B-Ear1)">>,
                 neck |-> <<"Bronze Choker (B-Neck1)">>]]

\* RECOMMENDATION_DB.get(metal, {}).get(part, [])
DBGet(m, p) ==
    IF m \in DOMAIN RECOMMENDATION_DB /\ p \in DOMAIN RECOMMENDATION_DB[m]
    THEN RECOMMENDATION_DB[m][p]
    ELSE <<>>

\* the items walked by "for part, items in RECOMMENDATION_DB.get(metal, {}).items():
\* for it in items", in that order
MetalItems(m) == DBGet(m, DB_PARTS[1]) \o DBGet(m, DB_PARTS[2]) \o DBGet(m, DB_PARTS[3])

RECURSIVE ItemsOfMetals(_)
ItemsOfMetals(ms) ==
    IF ms = <<>> THEN <<>> ELSE MetalItems(Head(ms)) \o ItemsOfMetals(Tail(ms))

-----------------------------------------------------------------------------
(* color_to_metal *)

color_to_metal_ge(c) ==
    IF c[1] >= c[2] /\ c[1] >= c[3] THEN "Gold"
    ELSE IF c[3] > c[1] /\ c[3] > c[2] THEN "Silver"
    ELSE "Rose Gold"

color_to_metal(c) ==
    IF c[1] > c[2] /\ c[1] > c[3] THEN "Gold"
    ELSE IF c[3] > c[1] /\ c[3] > c[2] THEN "Silver"
    ELSE "Rose Gold"

-----------------------------------------------------------------------------
(* recommend_unique_metals *)

\* np.argsort(percentages): the default kind ('quicksort') is not a stable
\* sort, so every permutation that puts the values in ascending order is a
\* result the build may produce.
ArgsortResults(p) ==
    {s \in Orderings(1..Len(p)) :
        \A a, b \in 1..Len(p) : a < b => p[s[a]] <= p[s[b]]}

Reverse_identity(s) == s

\* s[::-1]
Reverse(s) == [k \in 1..Len(s) |-> s[Len(s) + 1 - k]]

\* line 79: np.argsort(percentages)[::-1]
IdxSorted(p) == {Reverse(a) : a \in ArgsortResults(p)}

\* lines 81-86: for idx in idx_sorted, from position k on
RECURSIVE ClassifyLoop(_, _, _, _, _)
ClassifyLoop(cols, idxs, k, metals, tk) ==
    IF k > Len(idxs) THEN metals
    ELSE LET m  == color_to_metal(cols[idxs[k]])
             m2 == IF InSeq(m, metals) THEN metals ELSE Append(metals, m)
         IN  IF Len(m2) >= tk THEN m2
             ELSE ClassifyLoop(cols, idxs, k + 1, m2, tk)

\* lines 87-91: for lab in LABELS, from position k on
RECURSIVE PadLoop(_, _, _)
PadLoop(k, metals, tk) ==
    IF k > Len(LABELS) THEN metals
    ELSE IF Len(metals) >= tk THEN metals
    ELSE PadLoop(k + 1,
                 IF InSeq(LABELS[k], metals) THEN metals
                 ELSE Append(metals, LABELS[k]),
                 tk)

recommend_unique_metals_noslice(cols, idxs, tk) ==
    IF Len(cols) = 0 THEN <<>>
    ELSE PadLoop(1, ClassifyLoop(cols, idxs, 1, <<>>, tk), tk)

recommend_unique_metals_noguard(cols, idxs, tk) ==
    Take(PadLoop(1, ClassifyLoop(cols, idxs, 1, <<>>, tk), tk), tk)

\* idxs is the value of idx_sorted (line 79)
recommend_unique_metals(cols, idxs, tk) ==
    IF Len(cols) = 0 THEN <<>>
    ELSE Take(PadLoop(1, ClassifyLoop(cols, idxs, 1, <<>>, tk), tk), tk)

-----------------------------------------------------------------------------
(* get_recommendations_for_parts *)

\* lines 110-113: append the first item not yet selected, if any
TakeFirstNew(items, final) ==
    LET new == {k \in 1..Len(items) : ~InSeq(items[k], final)}
    IN  IF new = {} THEN final ELSE Append(final, items[Min(new)])

RECURSIVE AppendAllNew(_, _)
AppendAllNew(items, final) ==
    IF items = <<>> THEN final
    ELSE AppendAllNew(Tail(items),
                      IF InSeq(Head(items), final) THEN final
                      ELSE Append(final, Head(items)))

\* Priority 1, lines 104-115, from metal mi and part pi on.  ret says whether
\* the loop returned from the function (line 115).
RECURSIVE Priority1_nobreak(_, _, _, _, _, _)
Priority1_nobreak(ms, ps, tn, mi, pi, final) ==
    IF mi > Len(ms) THEN [final |-> final, ret |-> FALSE]
    ELSE IF pi > Len(ps) THEN Priority1_nobreak(ms, ps, tn, mi + 1, 1, final)
    ELSE IF ps[pi] = "unsure" THEN Priority1_nobreak(ms, ps, tn, mi, pi + 1, final)
    ELSE LET f2 == AppendAllNew(DBGet(ms[mi], ps[pi]), final)
         IN  IF Len(f2) >= tn THEN [final |-> Take(f2, tn), ret |-> TRUE]
             ELSE Priority1_nobreak(ms, ps, tn, mi, pi + 1, f2)

RECURSIVE Priority1(_, _, _, _, _, _)
Priority1(ms, ps, tn, mi, pi, final) ==
    IF mi > Len(ms) THEN [final |-> final, ret |-> FALSE]
    ELSE IF pi > Len(ps) THEN Priority1(ms, ps, tn, mi + 1, 1, final)
    ELSE IF ps[pi] = "unsure" THEN Priority1(ms, ps, tn, mi, pi + 1, final)
    ELSE LET f2 == TakeFirstNew(DBGet(ms[mi], ps[pi]), final)
         IN  IF Len(f2) >= tn THEN [final |-> Take(f2, tn), ret |-> TRUE]
             ELSE Priority1(ms, ps, tn, mi, pi + 1, f2)

\* Priorities 2 and 3, lines 118-124 and 127-133: walk items from position k
\* on, append the new ones, return as soon as top_n is reached.
RECURSIVE WalkItems_nodedup(_, _, _, _)
WalkItems_nodedup(items, k, final, tn) ==
    IF k > Len(items) THEN [final |-> final, ret |-> FALSE]
    ELSE LET f2 == Append(final, items[k])
         IN  IF Len(f2) >= tn THEN [final |-> Take(f2, tn), ret |-> TRUE]
             ELSE WalkItems_nodedup(items, k + 1, f2, tn)

RECURSIVE WalkItems(_, _, _, _)
WalkItems(items, k, final, tn) ==
    IF k > Len(items) THEN [final |-> final, ret |-> FALSE]
    ELSE LET f2 == IF InSeq(items[k], final) THEN final ELSE Append(final, items[k])
         IN  IF Len(f2) >= tn THEN [final |-> Take(f2, tn), ret |-> TRUE]
             ELSE WalkItems(items, k + 1, f2, tn)

\* ps is the sequence in which "for part in parts" yields the parts
get_recommendations_for_parts(ms, ps, tn) ==
    LET p1 == Priority1(ms, ps, tn, 1, 1, <<>>)
        p2 == WalkItems(ItemsOfMetals(ms), 1, p1.final, tn)
        p3 == WalkItems(ItemsOfMetals(LABELS), 1, p2.final, tn)
    IN  IF p1.ret THEN p1.final
        ELSE IF p2.ret THEN p2.final
        ELSE Take(p3.final, tn)

-----------------------------------------------------------------------------
(* Inputs *)

LabelSet == Range(LABELS)

PartSet == Range(PART_OPTIONS)

RGB == [1..3 -> 0..MaxChan]

\* cluster centres, one for each label color_to_metal can give: red strictly
\* largest, blue strictly largest, and a tie of all three channels
SampleColors == {<<200, 50, 50>>, <<50, 50, 200>>, <<100, 100, 100>>}

\* occupancies of three clusters: all different (two orders), a tie, empty clusters
SamplePercentages == {<<50, 30, 20>>, <<20, 30, 50>>, <<40, 40, 20>>, <<100, 0, 0>>}

SeqsUpTo(S, n) == UNION {[1..k -> S] : k \in 0..n}

-----------------------------------------------------------------------------
(* The script, lines 138-201 *)

W(kind, v) == [w |-> kind, v |-> v]

RECURSIVE WriteAll(_, _, _)
WriteAll(o, kind, vs) ==
    IF vs = <<>> THEN o ELSE WriteAll(Append(o, W(kind, Head(vs))), kind, Tail(vs))

\* lines 159-162
PartsOf(sel) ==
    LET named == {p \in Range(sel) : p # "unsure"}
    IN  IF named # {} THEN named
        ELSE IF sel # <<>> THEN Range(sel) ELSE {"unsure"}

Idle ==
    /\ nfiles = 0 /\ i = 0 /\ images = 0 /\ selected_parts = <<>>
    /\ parts_set = {} /\ colors = <<>> /\ percentages = <<>> /\ idx_sorted = <<>>
    /\ top_k = AppTopK /\ top_metals = <<>> /\ parts = <<>> /\ top_n = AppTopN
    /\ final_recs = <<>> /\ fallback = <<>> /\ out = <<>>
    /\ rgb = <<0, 0, 0>> /\ metal = ""

Init == pc = "start" /\ Idle

\* lines 138-142 and 200-201: u files come from the uploader
Upload ==
    /\ pc = "start"
    /\ \E u \in 0..MaxUpload :
          IF u = 0
          THEN /\ out' = Append(out, W("info", "please upload"))
               /\ pc' = "done"
               /\ nfiles' = nfiles
          ELSE /\ nfiles' = (IF u < MaxFiles THEN u ELSE MaxFiles)
               /\ out' = Append(out, W("write", "processing"))
               /\ pc' = "loop"
    /\ UNCHANGED <<i, images, selected_parts, parts_set, colors, percentages,
                   idx_sorted, top_k, top_metals, parts, top_n, final_recs,
                   fallback, rgb, metal>>

\* lines 148-154: the file decodes and the user has chosen part p for it
DecodeOk ==
    /\ pc = "loop" /\ i < nfiles
    /\ \E p \in PartSet :
          /\ selected_parts' = Append(selected_parts, p)
          /\ out' = Append(out, W("image", "shown"))
    /\ images' = images + 1
    /\ i' = i + 1
    /\ UNCHANGED <<pc, nfiles, parts_set, colors, percentages, idx_sorted, top_k,
                   top_metals, parts, top_n, final_recs, fallback, rgb, metal>>

\* lines 155-156: Image.open raises
DecodeFail ==
    /\ pc = "loop" /\ i < nfiles
    /\ out' = Append(out, W("error", "could not open"))
    /\ i' = i + 1
    /\ UNCHANGED <<pc, nfiles, images, selected_parts, parts_set, colors,
                   percentages, idx_sorted, top_k, top_metals, parts, top_n,
                   final_recs, fallback, rgb, metal>>

\* lines 158-164 with no decoded image: the script ends
EndNoImages ==
    /\ pc = "loop" /\ i = nfiles /\ images = 0
    /\ parts_set' = PartsOf(selected_parts)
    /\ pc' = "done"
    /\ UNCHANGED <<nfiles, i, images, selected_parts, colors, percentages,
                   idx_sorted, top_k, top_metals, parts, top_n, final_recs,
                   fallback, out, rgb, metal>>

\* lines 158-166: KMeans yields Clusters colours and their occupancies
Cluster ==
    /\ pc = "loop" /\ i = nfiles /\ images > 0
    /\ parts_set' = PartsOf(selected_parts)
    /\ colors' \in [1..Clusters -> SampleColors]
    /\ percentages' \in SamplePercentages
    /\ pc' = "swatches"
    /\ UNCHANGED <<nfiles, i, images, selected_parts, idx_sorted, top_k,
                   top_metals, parts, top_n, final_recs, fallback, out, rgb, metal>>

\* lines 168-182
Swatches ==
    /\ pc = "swatches"
    /\ idx_sorted' \in IdxSorted(percentages)
    /\ out' = WriteAll(Append(out, W("subheader", "colors")), "markdown",
                       [k \in 1..Len(percentages) |-> "swatch"])
    /\ pc' = "rank"
    /\ UNCHANGED <<nfiles, i, images, selected_parts, parts_set, colors,
                   percentages, top_k, top_metals, parts, top_n, final_recs,
                   fallback, rgb, metal>>

\* line 184; argsort of the same array gives what it gave at line 169
Rank ==
    /\ pc = "rank"
    /\ top_metals' = recommend_unique_metals(colors, idx_sorted, top_k)
    /\ pc' = "select"
    /\ UNCHANGED <<nfiles, i, images, selected_parts, parts_set, colors,
                   percentages, idx_sorted, top_k, parts, top_n, final_recs,
                   fallback, out, rgb, metal>>

\* lines 186-188: parts_set is a Python set of strings, iterated in hash order
Select ==
    /\ pc = "select"
    /\ \E o \in Orderings(parts_set) :
          /\ parts' = o
          /\ final_recs' = get_recommendations_for_parts(top_metals, o, top_n)
    /\ out' = Append(Append(out, W("subheader", "recommended")),
                     W("write", "using parts"))
    /\ pc' = "show"
    /\ UNCHANGED <<nfiles, i, images, selected_parts, parts_set, colors,
                   percentages, idx_sorted, top_k, top_metals, top_n, fallback,
                   rgb, metal>>

\* lines 190-198
Show ==
    /\ pc = "show"
    /\ IF final_recs # <<>>
       THEN /\ out' = WriteAll(out, "rec", final_recs)
            /\ fallback' = fallback
       ELSE /\ fallback' = get_recommendations_for_parts(top_metals, <<"unsure">>, top_n)
            /\ out' = WriteAll(Append(out, W("info", "no matching items")),
                               "rec", fallback')
    /\ pc' = "done"
    /\ UNCHANGED <<nfiles, i, images, selected_parts, parts_set, colors,
                   percentages, idx_sorted, top_k, top_metals, parts, top_n,
                   final_recs, rgb, metal>>

Next ==
    \/ Upload \/ DecodeOk \/ DecodeFail \/ EndNoImages \/ Cluster
    \/ Swatches \/ Rank \/ Select \/ Show

Spec == Init /\ [][Next]_vars

-----------------------------------------------------------------------------
(* color_to_metal applied to an RGB triple *)

InitClassifier ==
    /\ pc = "call" /\ nfiles = 0 /\ i = 0 /\ images = 0 /\ selected_parts = <<>>
    /\ parts_set = {} /\ colors = <<>> /\ percentages = <<>> /\ idx_sorted = <<>>
    /\ top_k = AppTopK /\ top_metals = <<>> /\ parts = <<>> /\ top_n = AppTopN
    /\ final_recs = <<>> /\ fallback = <<>> /\ out = <<>>
    /\ rgb \in RGB /\ metal = ""

Classify ==
    /\ pc = "call"
    /\ metal' = color_to_metal(rgb)
    /\ pc' = "ret"
    /\ UNCHANGED <<nfiles, i, images, selected_parts, parts_set, colors,
                   percentages, idx_sorted, top_k, top_metals, parts, top_n,
                   final_recs, fallback, out, rgb>>

SpecClassifier == InitClassifier /\ [][Classify]_vars

-----------------------------------------------------------------------------
(* recommend_unique_metals applied to clusters *)

InitRanker ==
    /\ pc = "call" /\ nfiles = 0 /\ i = 0 /\ images = 0 /\ selected_parts = <<>>
    /\ parts_set = {} /\ idx_sorted = <<>>
    /\ colors \in SeqsUpTo(SampleColors, MaxClusters)
    /\ percentages \in [1..Len(colors) -> 0..MaxPct]
    /\ top_k \in 0..MaxTopK
    /\ top_metals = <<>> /\ parts = <<>> /\ top_n = AppTopN
    /\ final_recs = <<>> /\ fallback = <<>> /\ out = <<>>
    /\ rgb = <<0, 0, 0>> /\ metal = ""

\* lines 76-92; line 79 is not reached for empty colors
RankCall ==
    /\ pc = "call"
    /\ idx_sorted' \in (IF Len(colors) = 0 THEN {<<>>} ELSE IdxSorted(percentages))
    /\ top_metals' = recommend_unique_metals(colors, idx_sorted', top_k)
    /\ pc' = "ret"
    /\ UNCHANGED <<nfiles, i, images, selected_parts, parts_set, colors,
                   percentages, top_k, parts, top_n, final_recs, fallback, out,
                   rgb, metal>>

SpecRanker == InitRanker /\ [][RankCall]_vars

-----------------------------------------------------------------------------
(* get_recommendations_for_parts applied to metals, parts and top_n *)

InitSelector ==
    /\ pc = "call" /\ nfiles = 0 /\ i = 0 /\ images = 0 /\ selected_parts = <<>>
    /\ colors = <<>> /\ percentages = <<>> /\ idx_sorted = <<>>
    /\ top_k = AppTopK
    /\ top_metals \in SeqsUpTo(LabelSet, MaxMetals)
    /\ parts_set \in SUBSET PartSet
    /\ parts \in Orderings(parts_set)
    /\ top_n \in 0..MaxTopN
    /\ final_recs = <<>> /\ fallback = <<>> /\ out = <<>>
    /\ rgb = <<0, 0, 0>> /\ metal = ""

\* lines 95-135
SelectCall ==
    /\ pc = "call"
    /\ final_recs' = get_recommendations_for_parts(top_metals, parts, top_n)
    /\ pc' = "ret"
    /\ UNCHANGED <<nfiles, i, images, selected_parts, parts_set, colors,
                   percentages, idx_sorted, top_k, top_metals, parts, top_n,
                   fallback, out, rgb, metal>>

SpecSelector == InitSelector /\ [][SelectCall]_vars

-----------------------------------------------------------------------------
(* Properties *)

ClassifierLabels == {"Gold", "Silver", "Rose Gold"}

\* C1: color_to_metal returns "Gold" exactly when r > g and r > b, otherwise
\* "Silver" exactly when b > r and b > g, otherwise "Rose Gold"; the result is
\* never "Platinum" or "Bronze".
C1_ChannelDominance ==
    pc = "ret" =>
        LET r == rgb[1]
            g == rgb[2]
            b == rgb[3]
        IN  /\ (metal = "Gold") <=> (r > g /\ r > b)
            /\ (metal = "Silver") <=> (~(r > g /\ r > b) /\ b > r /\ b > g)
            /\ (metal = "Rose Gold") <=> (~(r > g /\ r > b) /\ ~(b > r /\ b > g))
            /\ metal \in ClassifierLabels

\* C1 witness: red and green share the maximum and the label is "Rose Gold"
C1_Witness ==
    /\ pc = "ret"
    /\ rgb[1] = rgb[2] /\ rgb[1] > rgb[3]
    /\ metal = "Rose Gold"

\* C2: for nonempty clusters and any top_k >= 0 the ranked metals hold no
\* label twice and at most top_k labels.
C2_RankerUniqueBounded ==
    (pc = "ret" /\ Len(colors) > 0) =>
        /\ NoDup(top_metals)
        /\ Len(top_metals) <= top_k

\* C2 witness: two clusters of the same label were ranked, and top_k cut the list
C2_Witness ==
    /\ pc = "ret"
    /\ Len(colors) = 3
    /\ color_to_metal(colors[1]) = color_to_metal(colors[2])
    /\ color_to_metal(colors[1]) # color_to_metal(colors[3])
    /\ top_k = 2
    /\ Len(top_metals) = 2

\* C7: with no cluster at all the ranked metals are empty, whatever top_k is.
C7_EmptyClustersEmptyRanking ==
    (pc = "ret" /\ Len(colors) = 0) => top_metals = <<>>

\* C7 witness: the ranker has returned on empty input with top_k = 3
C7_Witness ==
    /\ pc = "ret"
    /\ Len(colors) = 0
    /\ top_k = 3
    /\ top_metals = <<>>

\* the labels of the clusters in the order the ranker visits them
VisitedLabels == [k \in 1..Len(idx_sorted) |-> color_to_metal(colors[idx_sorted[k]])]

\* s without the later occurrences of each element
RECURSIVE FirstOccurrences(_)
FirstOccurrences(s) ==
    IF s = <<>> THEN <<>>
    ELSE LET init == FirstOccurrences(SubSeq(s, 1, Len(s) - 1))
         IN  IF InSeq(s[Len(s)], init) THEN init ELSE Append(init, s[Len(s)])

\* position of x in s (x occurs in s)
PosIn(x, s) == Min({k \in 1..Len(s) : s[k] = x})

\* the clusters are visited in non-increasing order of occupancy, each once
VisitsDescending ==
    /\ Len(idx_sorted) = Len(colors)
    /\ Range(idx_sorted) = 1..Len(colors)
    /\ \A a, b \in 1..Len(idx_sorted) :
          a < b => percentages[idx_sorted[a]] >= percentages[idx_sorted[b]]

\* C8, as claimed: clusters are visited in descending order of occupancy and,
\* among equal occupancies, the lower cluster index is visited first.
C8_LowerIndexFirst ==
    (pc = "ret" /\ Len(colors) > 0) =>
        /\ VisitsDescending
        /\ \A a, b \in 1..Len(idx_sorted) :
              (a < b /\ percentages[idx_sorted[a]] = percentages[idx_sorted[b]])
                  => idx_sorted[a] < idx_sorted[b]

\* C8, amended: clusters are visited in non-increasing order of occupancy, each
\* once, the visiting order being the reverse of an ascending argsort, and the
\* labels enter the output in the order their clusters are first visited; no
\* order among equal occupancies is promised.
C8_DescendingVisitOrder ==
    (pc = "ret" /\ Len(colors) > 0) =>
        /\ VisitsDescending
        /\ Reverse(idx_sorted) \in ArgsortResults(percentages)
        /\ LET first == FirstOccurrences(VisitedLabels)
           IN  \A k \in 1..Len(top_metals) :
                  k <= Len(first) => top_metals[k] = first[k]

\* C8 witness: two clusters of different labels tie, the higher index is
\* visited first and its label precedes the other's in the output
C8_Witness ==
    /\ pc = "ret"
    /\ \E a, b \in 1..Len(colors) :
          /\ a < b
          /\ percentages[a] = percentages[b]
          /\ color_to_metal(colors[a]) # color_to_metal(colors[b])
          /\ PosIn(b, idx_sorted) < PosIn(a, idx_sorted)
          /\ InSeq(color_to_metal(colors[a]), top_metals)
          /\ InSeq(color_to_metal(colors[b]), top_metals)
          /\ PosIn(color_to_metal(colors[b]), top_metals)
                < PosIn(color_to_metal(colors[a]), top_metals)

\* C10: for nonempty clusters and top_k = 3 the ranked metals are exactly
\* three labels, a permutation of Gold, Silver, Rose Gold: the labels of the
\* clusters in visiting (occupancy) order first, then the missing ones in the
\* order Gold, Silver, Rose Gold; Platinum and Bronze never appear.
C10_ThreeClassifierLabels ==
    (pc = "ret" /\ Len(colors) > 0 /\ top_k = 3) =>
        LET first == FirstOccurrences(VisitedLabels)
            pad   == SelectSeq(<<"Gold", "Silver", "Rose Gold">>,
                               LAMBDA l : ~InSeq(l, first))
        IN  /\ Len(top_metals) = 3
            /\ Range(top_metals) = ClassifierLabels
            /\ top_metals = first \o pad
            /\ VisitsDescending

\* C10 witness: every cluster is Silver, so Gold and Rose Gold are padded in
C10_Witness ==
    /\ pc = "ret"
    /\ Len(colors) = 3
    /\ top_k = 3
    /\ \A k \in 1..3 : color_to_metal(colors[k]) = "Silver"
    /\ top_metals = <<"Silver", "Gold", "Rose Gold">>

\* C3: the selector's result holds no item twice and at most top_n items.
C3_SelectorUniqueBounded ==
    pc = "ret" =>
        /\ NoDup(final_recs)
        /\ Len(final_recs) <= top_n

\* C3 witness: a result whose items come from all three tiers
C3_Witness ==
    /\ pc = "ret"
    /\ top_metals = <<"Rose Gold">>
    /\ parts = <<"hand">>
    /\ top_n = 4
    /\ final_recs = <<"Rose Gold Ring (R-Ring1)", "Rose Gold Hoop (R-Ear1)",
                      "Rose Gold Pendant (R-Neck1)", "Gold Ring (G-Ring1)">>

\* the requested parts other than "unsure", in the order they are iterated
Requested == SelectSeq(parts, LAMBDA p : p # "unsure")

\* the catalog's item lists of the requested parts
RequestedItems ==
    UNION {Range(DBGet(m, Requested[k])) : m \in LabelSet, k \in 1..Len(Requested)}

\* C9: for ranked (duplicate-free) metals the result starts with the
\* part-matched picks: metal by metal in ranked order, the first catalog item
\* of each (metal, requested part) pair; anything else comes after them, and
\* when the pairs number at least top_n every item is of a requested part.
C9_PartMatchedFirst ==
    (pc = "ret" /\ NoDup(top_metals)) =>
        LET np    == Len(Requested)
            pairs == Len(top_metals) * np
            n     == IF top_n < pairs THEN top_n ELSE pairs
        IN  /\ Len(final_recs) >= n
            /\ \A k \in 1..n :
                  final_recs[k] =
                      DBGet(top_metals[((k - 1) \div np) + 1],
                            Requested[((k - 1) % np) + 1])[1]
            /\ pairs >= top_n => Range(final_recs) \subseteq RequestedItems

\* C9 witness: metals [Gold, Silver], parts {hand}, top_n = 3
C9_Witness ==
    /\ pc = "ret"
    /\ top_metals = <<"Gold", "Silver">>
    /\ parts = <<"hand">>
    /\ top_n = 3
    /\ final_recs = <<"Gold Ring (G-Ring1)", "Silver Ring (S-Ring1)",
                      "Gold Bracelet (G-Bracelet1)">>

\* C4, as claimed: the recommendations shown depend only on the ranked metals,
\* the set of parts and top_n, not on the order in which the set is iterated.
C4_IterationOrderIrrelevant ==
    (pc \in {"show", "done"} /\ images > 0) =>
        \A o \in Orderings(parts_set) :
            get_recommendations_for_parts(top_metals, o, top_n) = final_recs

Emitted(kind, v) == InSeq(W(kind, v), out)

EmittedKind(kind) == \E k \in 1..Len(out) : out[k].w = kind

\* C5, as claimed: when the part-matched tier yields nothing, the first
\* selector call returns the empty list and the script reports "no matching
\* items" and shows the result of a second call with parts {"unsure"}, the
\* report coming before the fallback items.
C5_EmptyFirstCallThenRetry ==
    (pc = "done" /\ images > 0
        /\ Priority1(top_metals, parts, top_n, 1, 1, <<>>).final = <<>>) =>
        /\ final_recs = <<>>
        /\ Emitted("info", "no matching items")
        /\ fallback = get_recommendations_for_parts(top_metals, <<"unsure">>, top_n)
        /\ \A a, b \in 1..Len(out) :
              (out[a] = W("info", "no matching items") /\ out[b].w = "rec") => a < b

\* C6, as claimed: a run that ends with no valid image has clustered, ranked
\* and selected nothing, shown no swatch and no recommendation, and has
\* emitted an informational prompt.
C6_NoImagesInfoPrompt ==
    (pc = "done" /\ images = 0) =>
        /\ colors = <<>> /\ percentages = <<>>
        /\ top_metals = <<>> /\ final_recs = <<>> /\ fallback = <<>>
        /\ ~EmittedKind("markdown") /\ ~EmittedKind("rec")
        /\ EmittedKind("info")

====
